---- MODULE Spec2Model ----
(***************************************************************************)
(* Results-directory pipeline of bullviso-tools: directory scanning,       *)
(* output-type detection, output validation, SCF-energy extraction         *)
(* (src/bullviso_tools/io.py) and RMSD deduplication of conformers         *)
(* (src/scripts/deduplicate.py).                                           *)
(*                                                                         *)
(* File names and glob patterns are sequences of one-character strings, so *)
(* that suffixes and glob matches are computed character by character.     *)
(* A log file is a sequence of lines and a line a sequence of words (the   *)
(* words of the line separated by single blanks); the words used below are *)
(* such that a flag occurs in a line as a substring exactly when its words *)
(* occur as consecutive words of the line.                                 *)
(***************************************************************************)
EXTENDS Integers, Sequences, FiniteSets, TLC

VARIABLES
    files,      \* files[d]: the names of the entries directly inside directory d
    logs,       \* logs[d]: the text of the log file(s) of directory d
    rms,        \* rms[a][b]: structural deviation of the geometries of a and b
    threshold,  \* rms_threshold handed to the deduplicator
    pc,         \* position of the running script: "idle", "loop", "crashed"
    pending,    \* isomers the current deduplication run has not processed yet
    clusters,   \* clusters[i]: clusters (tuples of directories) of isomer i, this run
    written,    \* directories that received a marker in the current run
    before,     \* marked directories when the current run started
    runs,       \* number of deduplication runs started
    finished,   \* number of deduplication runs that ended normally
    order,      \* the isomers in the order root_d.iterdir() lists them
    quiet,      \* whether a deduplication run has ended having written no marker
    result      \* outcome of the last library call made by the caller

vars == <<files, logs, rms, threshold, pc, pending, clusters, written, before,
          runs, finished, order, quiet, result>>

----------------------------------------------------------------------------
(* Bounds of the model.                                                    *)

\* conformer directories of the first isomer
NumConfs == 4
\* deduplication runs in one behaviour
MaxRuns == 4
\* lines of a log file
MaxLines == 2
\* characters of a result directory's name
MaxNameLen == 4

----------------------------------------------------------------------------
(* File names.                                                             *)

XtbXyz  == <<"x","t","b","o","p","t",".","x","y","z">>
XtbOut  == <<"x","t","b",".","o","u","t">>
OrcaXyz == <<"0","1",".","x","y","z">>
OrcaTrj == <<"0","1","_","t","r","j",".","x","y","z">>
OrcaOut == <<"0","1",".","o","u","t">>
OrcaOut2 == <<"0","2",".","o","u","t">>
Ignore  == <<".","i","g","n","o","r","e">>

FileNames == {XtbXyz, XtbOut, OrcaXyz, OrcaTrj, OrcaOut, OrcaOut2, Ignore}

\* index of the last "." of a name, 0 if there is none
LastDot(name) ==
    LET dots == {i \in 1..Len(name) : name[i] = "."}
    IN  IF dots = {} THEN 0 ELSE CHOOSE i \in dots : \A j \in dots : j <= i

\* pathlib's Path(f).suffix: the part from the last dot on; empty when the
\* name has no dot, when its only dot leads the name, or when the dot ends it
Suffix(name) ==
    LET i == LastDot(name)
    IN  IF 1 < i /\ i < Len(name) THEN SubSeq(name, i, Len(name)) ELSE <<>>

DotXyz == <<".","x","y","z">>
DotOut == <<".","o","u","t">>

----------------------------------------------------------------------------
(* Glob matching of one path segment (pathlib.Path.glob, fnmatch rules).   *)

\* index of the "]" closing the class that opens at p[1] = "["; 0 if unclosed
ClassEnd(p) ==
    LET first == IF Len(p) >= 2 /\ p[2] = "!" THEN 3 ELSE 2
        ends  == {i \in (first + 1)..Len(p) : p[i] = "]"}
    IN  IF ends = {} THEN 0 ELSE CHOOSE i \in ends : \A j \in ends : i <= j

RECURSIVE GlobMatch(_, _)
GlobMatch(p, s) ==
    IF p = <<>> THEN s = <<>>
    ELSE IF p[1] = "*"
         THEN \/ GlobMatch(Tail(p), s)
              \/ (s # <<>> /\ GlobMatch(p, Tail(s)))
    ELSE IF p[1] = "?"
         THEN s # <<>> /\ GlobMatch(Tail(p), Tail(s))
    ELSE IF p[1] = "[" /\ ClassEnd(p) # 0
         THEN LET e     == ClassEnd(p)
                  neg   == p[2] = "!"
                  first == IF neg THEN 3 ELSE 2
                  chars == {p[i] : i \in first..(e - 1)}
              IN  /\ s # <<>>
                  /\ ((s[1] \in chars) # neg)
                  /\ GlobMatch(SubSeq(p, e + 1, Len(p)), Tail(s))
    ELSE s # <<>> /\ s[1] = p[1] /\ GlobMatch(Tail(p), Tail(s))

\* the glob patterns in use and, for each, the file names it matches
\* (GlobMatch evaluated once for every pattern and name)
Patterns ==
    {<<"x","t","b","o","p","t",".","x","y","z">>, <<"x","t","b",".","o","u","t">>,
     <<"0","*","[","!","j","]",".","x","y","z">>, <<"0","*",".","o","u","t">>}
GlobTable == [p \in Patterns |-> {f \in FileNames : GlobMatch(p, f)}]

\* Path(f).suffix of every file name
SuffixTable == [f \in FileNames |-> Suffix(f)]

\* result_d.glob(pattern): the entries of the directory the pattern matches
Glob(fs, pattern) == fs \cap GlobTable[pattern]

----------------------------------------------------------------------------
(* OUTPUT_CONFIGS and AU_CONVERSION_FACTORS.                               *)

OutputTypes == <<"xtb", "orca">>

OUTPUT_CONFIGS ==
    [xtb |->
        [xyz_f_glob |-> <<"x","t","b","o","p","t",".","x","y","z">>,
         out_f_glob |-> <<"x","t","b",".","o","u","t">>,
         out_completion_flag |-> <<"finished", "run">>,
         out_imaginary_frequency_flag |-> <<"significant", "imaginary", "frequency">>,
         energy_line_config |-> [flag |-> <<"TOTAL", "ENERGY">>, target_index |-> 3]],
     orca |->
        [xyz_f_glob |-> <<"0","*","[","!","j","]",".","x","y","z">>,
         out_f_glob |-> <<"0","*",".","o","u","t">>,
         out_completion_flag |-> <<"ORCA", "TERMINATED", "NORMALLY">>,
         out_imaginary_frequency_flag |-> <<"IMAGINARY", "MODE">>,
         energy_line_config |-> [flag |-> <<"FINAL", "SINGLE", "POINT", "ENERGY">>,
                                 target_index |-> 4]]]

\* conversion factors, in thousandths (1.000, 2625.500, 627.510)
\* the conversion table with the factors of kjmol and kcalmol exchanged
AU_CONVERSION_FACTORS_Swapped == [au |-> 1000, kjmol |-> 627510, kcalmol |-> 2625500]

AU_CONVERSION_FACTORS ==
    [au |-> 1000, kjmol |-> 2625500, kcalmol |-> 627510]

----------------------------------------------------------------------------
(* Outcomes of calls: a returned value or a raised exception.              *)

\* the element of a one-element set; The({e(x) : x \in {v}}) is e(v), with the
\* local variable x standing for the value v, computed once
The(S) == CHOOSE x \in S : TRUE

Return(v) == [ok |-> TRUE, val |-> v]
Raise(type, what) == [ok |-> FALSE, type |-> type, what |-> what]

----------------------------------------------------------------------------
(* The directory tree.  A directory is its path from the root, a sequence  *)
(* of naturals: <<>> is the root, <<i>> the directory of isomer i and      *)
(* <<i, k>> a result directory below it.                                   *)

Root == <<>>
Isomers == {1, 2}
IsomerDir(i) == <<i>>
\* result directories: NumConfs below isomer 1, one below isomer 2
ResultDirs == {<<1, k>> : k \in 1..NumConfs} \cup {<<2, 1>>}
Dirs == {Root} \cup {IsomerDir(i) : i \in Isomers} \cup ResultDirs

IsPrefix(d, e) == Len(d) <= Len(e) /\ SubSeq(e, 1, Len(d)) = d
Children(d) == {e \in Dirs : Len(e) = Len(d) + 1 /\ IsPrefix(d, e)}

\* a set of directories as a sequence, in listing order (ascending last name)
RECURSIVE Listing(_)
Listing(S) ==
    IF S = {} THEN <<>>
    ELSE LET d == CHOOSE x \in S : \A y \in S : x[Len(x)] <= y[Len(y)]
         IN  <<d>> \o Listing(S \ {d})

\* the walk of a directory going through every result directory of the tree,
\* those below other directories included
WalkWhole(d) == <<d>> \o Listing(ResultDirs \ {d})

\* os.walk(root_d): the directory, then the walk of each subdirectory
RECURSIVE Walk(_)
RECURSIVE WalkAll(_)
WalkAll(ds) == IF ds = <<>> THEN <<>> ELSE Walk(Head(ds)) \o WalkAll(Tail(ds))
Walk(d) == <<d>> \o WalkAll(Listing(Children(d)))

\* the walk from every directory (the tree's directories never change)
WalkTable == [d \in Dirs |-> Walk(d)]

----------------------------------------------------------------------------
(* Words and lines of log files.                                           *)

\* float(word): the words that parse as numbers, with their values
FloatTable == [w \in {"-3", "-2", "-1"} |->
                 IF w = "-3" THEN -3 ELSE IF w = "-2" THEN -2 ELSE -1]
IsFloat(w) == w \in DOMAIN FloatTable

\* flag in line: the flag's words occur as consecutive words of the line
Contains(line, flag) ==
    \E i \in 1..(Len(line) - Len(flag) + 1) :
        SubSeq(line, i, i + Len(flag) - 1) = flag

\* f_contents.rfind(flag): the last line holding the flag, -1 if none does
RFind(text, flag) ==
    LET hits == {k \in 1..Len(text) : Contains(text[k], flag)}
    IN  IF hits = {} THEN -1 ELSE CHOOSE k \in hits : \A j \in hits : j <= k

----------------------------------------------------------------------------
(* src/bullviso_tools/io.py                                                *)

\* detect_output_type: the output types whose two globs both match
RECURSIVE DetectMatches(_, _)
DetectMatches(fs, types) ==
    IF types = <<>> THEN <<>>
    ELSE LET output_config == OUTPUT_CONFIGS[Head(types)]
             has_xyz == Glob(fs, output_config.xyz_f_glob) # {}
             has_out == Glob(fs, output_config.out_f_glob) # {}
         IN  (IF has_xyz /\ has_out THEN <<Head(types)>> ELSE <<>>)
                 \o DetectMatches(fs, Tail(types))

\* detect_output_type taking the first of several matching output types
detect_first_match(fs) ==
    The({IF matches = <<>>
         THEN Raise("ValueError", "couldn't detect the output type")
         ELSE Return(matches[1]) :
         matches \in {DetectMatches(fs, OutputTypes)}})

detect_output_type(fs) ==
    The({IF matches = <<>>
         THEN Raise("ValueError", "couldn't detect the output type")
         ELSE IF Len(matches) > 1
              THEN Raise("ValueError", "multiple possible output types detected")
         ELSE Return(matches[1]) :
         matches \in {DetectMatches(fs, OutputTypes)}})

\* _get_file_matching_glob: the single match; with several matches the
\* message of the intended ValueError joins Path objects as if they were
\* strings, which raises TypeError before the ValueError is built
_get_file_matching_glob(fs, glob_pattern) ==
    LET matches == Glob(fs, glob_pattern)
    IN  IF matches = {} THEN Raise("FileNotFoundError", "no files matching")
        ELSE IF Cardinality(matches) > 1
             THEN Raise("TypeError", "sequence item 0: expected str instance")
        ELSE Return(CHOOSE f \in matches : TRUE)

get_output_file(fs, output_config) ==
    _get_file_matching_glob(fs, output_config.out_f_glob)

get_xyz_file(fs, output_config) ==
    _get_file_matching_glob(fs, output_config.xyz_f_glob)

\* validate_results_dir looking for the imaginary-frequency flag only after
\* the last completion flag
validate_after_completion(fs, text) ==
    The({IF ~detected.ok THEN detected
         ELSE The({IF ~out_f.ok THEN out_f
                   ELSE The({IF completed = -1
                             THEN Raise("ValueError", "incomplete output detected")
                             ELSE IF RFind(text, OUTPUT_CONFIGS[detected.val]
                                               .out_imaginary_frequency_flag) > completed
                                  THEN Raise("ValueError", "imaginary frequency detected")
                             ELSE Return(TRUE) :
                             completed \in {RFind(text, OUTPUT_CONFIGS[detected.val]
                                                      .out_completion_flag)}}) :
                   out_f \in {get_output_file(fs, OUTPUT_CONFIGS[detected.val])}}) :
         detected \in {detect_output_type(fs)}})

\* validate_results_dir(result_d) with output_config = None
validate_results_dir(fs, text) ==
    The({IF ~detected.ok THEN detected
         ELSE The({IF ~out_f.ok THEN out_f
                   ELSE IF RFind(text, OUTPUT_CONFIGS[detected.val]
                                     .out_completion_flag) = -1
                        THEN Raise("ValueError", "incomplete output detected")
                   ELSE IF RFind(text, OUTPUT_CONFIGS[detected.val]
                                     .out_imaginary_frequency_flag) # -1
                        THEN Raise("ValueError", "imaginary frequency detected")
                   ELSE Return(TRUE) :
                   out_f \in {get_output_file(fs, OUTPUT_CONFIGS[detected.val])}}) :
         detected \in {detect_output_type(fs)}})

RECURSIVE EnergyFromLines(_, _, _, _)

\* the loop of get_scf_energy going on to an earlier line when the line it
\* found is malformed
EnergyFromLinesFallback(lines, k, energy_line_config, au_conversion_factor) ==
    IF k = 0 THEN Raise("ValueError", "couldn't get the SCF energy")
    ELSE IF /\ Contains(lines[k], energy_line_config.flag)
            /\ Len(lines[k]) >= energy_line_config.target_index + 1
            /\ IsFloat(lines[k][energy_line_config.target_index + 1])
         THEN Return(FloatTable[lines[k][energy_line_config.target_index + 1]]
                         * au_conversion_factor)
    ELSE EnergyFromLines(lines, k - 1, energy_line_config, au_conversion_factor)

\* the loop of get_scf_energy over reversed(lines), from line k down
EnergyFromLines(lines, k, energy_line_config, au_conversion_factor) ==
    IF k = 0 THEN Raise("ValueError", "couldn't get the SCF energy")
    ELSE IF Contains(lines[k], energy_line_config.flag)
         THEN LET parts == lines[k]
              IN  IF parts = <<>>
                  THEN EnergyFromLines(lines, k - 1, energy_line_config,
                                       au_conversion_factor)
                  ELSE IF Len(parts) < energy_line_config.target_index + 1
                       THEN Raise("IndexError", "list index out of range")
                  ELSE IF ~IsFloat(parts[energy_line_config.target_index + 1])
                       THEN Raise("ValueError", "could not convert string to float")
                  ELSE Return(FloatTable[parts[energy_line_config.target_index + 1]]
                                  * au_conversion_factor)
    ELSE EnergyFromLines(lines, k - 1, energy_line_config, au_conversion_factor)

\* get_scf_energy(result_d, units = units) with output_config = None;
\* the value is in thousandths of the requested unit
get_scf_energy(fs, text, units) ==
    The({IF ~detected.ok THEN detected
         ELSE IF units \notin DOMAIN AU_CONVERSION_FACTORS
              THEN Raise("ValueError", "not a supported energy unit")
         ELSE The({IF ~out_f.ok THEN out_f
                   ELSE EnergyFromLines(text, Len(text),
                                        OUTPUT_CONFIGS[detected.val].energy_line_config,
                                        AU_CONVERSION_FACTORS[units]) :
                   out_f \in {get_output_file(fs, OUTPUT_CONFIGS[detected.val])}}) :
         detected \in {detect_output_type(fs)}})

NoError == [ok |-> TRUE, val |-> "none"]

\* the body of iter_results_dirs's loop without the '.ignore' test
VisitDirUnflagged(d, validate, fs, text, acc) ==
    LET suffixes == {SuffixTable[f] : f \in fs}
    IN  IF {DotXyz, DotOut} \subseteq suffixes
        THEN IF validate
             THEN The({IF v.ok
                       THEN IF v.val
                            THEN [acc EXCEPT !.validated = Append(@, d),
                                             !.yielded = Append(@, d)]
                            ELSE [acc EXCEPT !.validated = Append(@, d)]
                       ELSE IF v.type = "ValueError"
                            THEN [acc EXCEPT !.validated = Append(@, d)]
                       ELSE [acc EXCEPT !.validated = Append(@, d), !.raised = v] :
                       v \in {validate_results_dir(fs, text)}})
             ELSE [acc EXCEPT !.yielded = Append(@, d)]
        ELSE acc

\* the body of iter_results_dirs's loop for directory d holding the files fs
\* and the log text; acc collects the directories yielded so far, those
\* handed to validate_results_dir, and the exception that leaves the loop
VisitDir(d, validate, fs, text, acc) ==
    LET suffixes == {SuffixTable[f] : f \in fs}
    IN  IF {DotXyz, DotOut} \subseteq suffixes
        THEN IF Ignore \notin fs
             THEN IF validate
                  THEN The({IF v.ok
                            THEN IF v.val
                                 THEN [acc EXCEPT !.validated = Append(@, d),
                                                  !.yielded = Append(@, d)]
                                 ELSE [acc EXCEPT !.validated = Append(@, d)]
                            ELSE IF v.type = "ValueError"
                                 THEN [acc EXCEPT !.validated = Append(@, d)]
                            ELSE [acc EXCEPT !.validated = Append(@, d), !.raised = v] :
                            v \in {validate_results_dir(fs, text)}})
                  ELSE [acc EXCEPT !.yielded = Append(@, d)]
             ELSE acc
        ELSE acc

\* iter_results_dirs: the loop over the walk ds, left by an exception that
\* is no ValueError
RECURSIVE IterLoop(_, _, _, _, _)
IterLoop(ds, validate, fsOf, textOf, acc) ==
    IF ds = <<>> THEN acc
    ELSE The({IF a.raised # NoError THEN a
              ELSE IterLoop(Tail(ds), validate, fsOf, textOf, a) :
              a \in {VisitDir(Head(ds), validate, fsOf[Head(ds)],
                              textOf[Head(ds)], acc)}})

iter_results_dirs(root_d, validate, fsOf, textOf) ==
    IterLoop(WalkTable[root_d], validate, fsOf, textOf,
             [yielded |-> <<>>, validated |-> <<>>, raised |-> NoError])

----------------------------------------------------------------------------
(* src/scripts/deduplicate.py                                              *)

\* get_mol(result_d): the molecule read from the directory's geometry file
get_mol(fs) ==
    The({IF ~detected.ok THEN detected
         ELSE get_xyz_file(fs, OUTPUT_CONFIGS[detected.val]) :
         detected \in {detect_output_type(fs)}})

\* the body of _load_confs_from_dir's loop, over the directories ds the
\* scan yields: a conformer per directory, with its 'result_d' and 'energy'
RECURSIVE LoadLoop(_, _, _, _)
LoadLoop(ds, fsOf, textOf, mol) ==
    IF ds = <<>> THEN Return(mol)
    ELSE The({IF ~result_d_mol.ok THEN result_d_mol
              ELSE The({IF ~energy.ok THEN energy
                        ELSE LoadLoop(Tail(ds), fsOf, textOf,
                                      Append(mol, [result_d |-> Head(ds),
                                                   energy |-> energy.val])) :
                        energy \in {get_scf_energy(fsOf[Head(ds)],
                                                   textOf[Head(ds)], "au")}}) :
              result_d_mol \in {get_mol(fsOf[Head(ds)])}})

\* _load_confs_from_dir(root_d / isomer): the conformers in the order the
\* scan yields them (<<>> stands for None), or the exception that leaves it
_load_confs_from_dir(root_d, fsOf, textOf) ==
    The({The({IF ~loaded.ok THEN loaded
              ELSE IF scan.raised # NoError THEN scan.raised
              ELSE loaded :
              loaded \in {LoadLoop(scan.yielded, fsOf, textOf, <<>>)}}) :
         scan \in {iter_results_dirs(root_d, TRUE, fsOf, textOf)}})

\* AllChem.GetConformerRMSMatrix(mol): the lower triangle, row by row
RECURSIVE RMSRows(_, _, _)
RMSRows(mol, i, dev) ==
    IF i > Len(mol) THEN <<>>
    ELSE [j \in 1..(i - 1) |-> dev[mol[j].result_d][mol[i].result_d]]
             \o RMSRows(mol, i + 1, dev)

GetConformerRMSMatrix(mol, dev) == RMSRows(mol, 2, dev)

\* entry of the lower-triangle list for the points i and j, i # j
Dist(data, i, j) ==
    IF i > j THEN data[((i - 1) * (i - 2)) \div 2 + j]
    ELSE data[((j - 1) * (j - 2)) \div 2 + i]

\* Butina.ClusterData: neighbour list of point i, in ascending order
NbrList(data, nPts, distThresh, i) ==
    SelectSeq([j \in 1..nPts |-> j],
              LAMBDA j : j # i /\ Dist(data, i, j) <= distThresh)

\* tLists.sort(reverse = True): pairs <<number of neighbours, point>>, descending
RECURSIVE SortReverse(_)
SortReverse(S) ==
    IF S = {} THEN <<>>
    ELSE LET top == CHOOSE x \in S :
                        \A y \in S : y[1] < x[1] \/ (y[1] = x[1] /\ y[2] <= x[2])
         IN  <<top>> \o SortReverse(S \ {top})

RECURSIVE ButinaLoop(_, _, _, _)

\* the clustering loop also absorbing neighbours that are already clustered
ButinaLoopNoSeen(tLists, nbrLists, seen, res) ==
    IF tLists = <<>> THEN res
    ELSE LET idx == Head(tLists)[2]
         IN  IF idx \in seen THEN ButinaLoop(Tail(tLists), nbrLists, seen, res)
             ELSE LET tRes == <<idx>> \o nbrLists[idx]
                  IN  ButinaLoop(Tail(tLists), nbrLists,
                                 seen \cup {nbrLists[idx][k] : k \in DOMAIN nbrLists[idx]},
                                 Append(res, tRes))

\* Butina.ClusterData: the loop over tLists; a point not yet seen becomes
\* the centroid of a new cluster holding its unseen neighbours
ButinaLoop(tLists, nbrLists, seen, res) ==
    IF tLists = <<>> THEN res
    ELSE LET idx == Head(tLists)[2]
         IN  IF idx \in seen THEN ButinaLoop(Tail(tLists), nbrLists, seen, res)
             ELSE LET new  == SelectSeq(nbrLists[idx], LAMBDA nbr : nbr \notin seen)
                      tRes == <<idx>> \o new
                  IN  ButinaLoop(Tail(tLists), nbrLists,
                                 seen \cup {new[k] : k \in DOMAIN new},
                                 Append(res, tRes))

\* Butina.ClusterData(data, nPts, distThresh, isDistData = True)
ClusterData(data, nPts, distThresh) ==
    LET nbrLists == [i \in 1..nPts |-> NbrList(data, nPts, distThresh, i)]
        tLists   == SortReverse({<<Len(nbrLists[i]), i>> : i \in 1..nPts})
    IN  ButinaLoop(tLists, nbrLists, {}, <<>>)

\* the member of the cluster kept when the highest energy is taken
MaxEnergyConfIdx(cluster, mol) ==
    LET best == CHOOSE p \in DOMAIN cluster :
                   /\ \A q \in DOMAIN cluster :
                         mol[cluster[q]].energy <= mol[cluster[p]].energy
                   /\ \A q \in 1..(p - 1) :
                         mol[cluster[q]].energy # mol[cluster[p]].energy
    IN  cluster[best]

\* the member of the cluster kept when the last of the members with the
\* lowest energy is taken
MinEnergyLastIdx(cluster, mol) ==
    LET best == CHOOSE p \in DOMAIN cluster :
                   /\ \A q \in DOMAIN cluster :
                         mol[cluster[p]].energy <= mol[cluster[q]].energy
                   /\ \A q \in (p + 1)..Len(cluster) :
                         mol[cluster[q]].energy # mol[cluster[p]].energy
    IN  cluster[best]

\* min(cluster, key = energy): the first member with the lowest energy
MinEnergyConfIdx(cluster, mol) ==
    LET best == CHOOSE p \in DOMAIN cluster :
                   /\ \A q \in DOMAIN cluster :
                         mol[cluster[p]].energy <= mol[cluster[q]].energy
                   /\ \A q \in 1..(p - 1) :
                         mol[cluster[q]].energy # mol[cluster[p]].energy
    IN  cluster[best]

\* the directories that get '.ignore' when every member of a cluster is flagged
FlaggedDirsAll(clusterList, mol) ==
    UNION {{mol[clusterList[c][k]].result_d : k \in DOMAIN clusterList[c]} :
           c \in DOMAIN clusterList}

\* the directories flagged, with '.ignore' written beside the result
\* directory instead of inside it
FlaggedDirsParent(clusterList, mol) ==
    UNION {{SubSeq(mol[cluster[k]].result_d, 1, Len(mol[cluster[k]].result_d) - 1) :
               k \in {j \in DOMAIN cluster :
                         cluster[j] # MinEnergyConfIdx(cluster, mol)}} :
           cluster \in {clusterList[c] : c \in DOMAIN clusterList}}

\* the directories that get '.ignore': every member of every cluster but
\* the cluster's minimum-energy member
FlaggedDirs(clusterList, mol) ==
    UNION {{mol[clusterList[c][k]].result_d :
               k \in {q \in DOMAIN clusterList[c] :
                         clusterList[c][q] # MinEnergyConfIdx(clusterList[c], mol)}} :
           c \in DOMAIN clusterList}

\* the clusters as tuples of result directories
ClusterDirs(clusterList, mol) ==
    [c \in DOMAIN clusterList |->
        [k \in DOMAIN clusterList[c] |-> mol[clusterList[c][k]].result_d]]

----------------------------------------------------------------------------
(* Inputs: log lines, log texts, directory contents.                       *)

XtbFinished   == <<"*", "finished", "run">>
XtbImaginary  == <<"significant", "imaginary", "frequency">>
XtbEnergy(w)  == <<"|", "TOTAL", "ENERGY", w, "Eh", "|">>
XtbShort      == <<"|", "TOTAL", "ENERGY">>
OrcaFinished  == <<"ORCA", "TERMINATED", "NORMALLY">>
OrcaImaginary == <<"IMAGINARY", "MODE">>
OrcaEnergy(w) == <<"FINAL", "SINGLE", "POINT", "ENERGY", w>>

Lines == {XtbFinished, XtbImaginary, XtbEnergy("-2"), XtbEnergy("-1"),
          XtbEnergy("n/a"), XtbShort,
          OrcaFinished, OrcaImaginary, OrcaEnergy("-3"), <<"junk">>}

\* every text of at most MaxLines lines
Texts == UNION {[1..n -> Lines] : n \in 0..MaxLines}

\* units asked of get_scf_energy
Units == {"au", "kjmol", "kcalmol", "kJ/mol", "kcal/mol"}

\* the directory the single-directory calls are made on
D1 == <<1, 1>>

NoFiles == [d \in Dirs |-> {}]
NoLogs  == [d \in Dirs |-> <<>>]
NoRms   == [a \in ResultDirs |-> [b \in ResultDirs |-> 0]]
NoCall  == [call |-> "none"]

\* root_d.iterdir() lists the isomers in an order the file system chooses,
\* the same at every listing of the unchanged root
IterdirOrders == {<<1, 2>>, <<2, 1>>}

\* the variables of the deduplication script, at rest
ScriptAtRest ==
    /\ pc = "idle"
    /\ pending = {}
    /\ clusters = [i \in Isomers |-> <<>>]
    /\ written = {}
    /\ before = {}
    /\ runs = 0
    /\ finished = 0
    /\ quiet = FALSE

----------------------------------------------------------------------------
(* Output-type detection on one directory holding any set of files.        *)

InitDetect ==
    /\ \E fs \in SUBSET FileNames : files = [NoFiles EXCEPT ![D1] = fs]
    /\ logs = NoLogs
    /\ rms = NoRms
    /\ threshold = 0
    /\ ScriptAtRest
    /\ order = <<1, 2>>
    /\ result = NoCall

Detect ==
    /\ result = NoCall
    /\ result' = [call |-> "detect", out |-> detect_output_type(files[D1])]
    /\ UNCHANGED <<files, logs, rms, threshold, pc, pending, clusters, written,
                   before, runs, finished, order, quiet>>

SpecDetect == InitDetect /\ [][Detect]_vars

----------------------------------------------------------------------------
(* Validation and energy extraction on one directory.                      *)

FileSets ==
    {{XtbXyz, XtbOut}, {OrcaXyz, OrcaOut}, {OrcaXyz, OrcaTrj, OrcaOut},
     {XtbXyz, XtbOut, OrcaOut}, {OrcaXyz, OrcaOut, OrcaOut2},
     {XtbXyz, OrcaOut}, {XtbXyz, XtbOut, OrcaXyz, OrcaOut}}

InitIO ==
    /\ \E fs \in FileSets : files = [NoFiles EXCEPT ![D1] = fs]
    /\ \E t \in Texts : logs = [NoLogs EXCEPT ![D1] = t]
    /\ rms = NoRms
    /\ threshold = 0
    /\ ScriptAtRest
    /\ order = <<1, 2>>
    /\ result = NoCall

Validate ==
    /\ result = NoCall
    /\ result' = [call |-> "validate",
                  out |-> validate_results_dir(files[D1], logs[D1])]
    /\ UNCHANGED <<files, logs, rms, threshold, pc, pending, clusters, written,
                   before, runs, finished, order, quiet>>

GetScfEnergy(units) ==
    /\ result = NoCall
    /\ result' = [call |-> "energy", units |-> units,
                  out |-> get_scf_energy(files[D1], logs[D1], units)]
    /\ UNCHANGED <<files, logs, rms, threshold, pc, pending, clusters, written,
                   before, runs, finished, order, quiet>>

NextIO == Validate \/ \E u \in Units : GetScfEnergy(u)

SpecIO == InitIO /\ [][NextIO]_vars

----------------------------------------------------------------------------
(* Properties of detection, validation and energy extraction.              *)

\* file sets with one log file, detected as xtb / as orca
XtbDir(fs)  == fs \in {{XtbXyz, XtbOut}, {XtbXyz, XtbOut, OrcaOut}}
OrcaDir(fs) == fs \in {{OrcaXyz, OrcaOut}, {OrcaXyz, OrcaTrj, OrcaOut}}

\* C7: detect_output_type returns a format exactly when it is the only one
\* with a geometry file and a log file in the directory (xtb: xtbopt.xyz and
\* xtb.out; orca: 01.xyz and 01.out or 02.out, 01_trj.xyz not counting); it
\* fails as undetected when no format has both and as ambiguous when both
\* formats have both.
C7_DetectUnique ==
    result.call = "detect" =>
        LET fs   == files[D1]
            xtb  == XtbXyz \in fs /\ XtbOut \in fs
            orca == OrcaXyz \in fs /\ (OrcaOut \in fs \/ OrcaOut2 \in fs)
        IN  /\ (xtb /\ ~orca) <=> (result.out = Return("xtb"))
            /\ (orca /\ ~xtb) <=> (result.out = Return("orca"))
            /\ (~xtb /\ ~orca) <=>
                 (result.out = Raise("ValueError", "couldn't detect the output type"))
            /\ (xtb /\ orca) <=>
                 (result.out = Raise("ValueError",
                                     "multiple possible output types detected"))

\* the geometry file of one format beside the log file of the other: undetected
C7_Witness ==
    /\ result.call = "detect"
    /\ files[D1] = {XtbXyz, OrcaTrj, OrcaOut}
    /\ ~result.out.ok

\* C8: with a single log file of the detected format, validation succeeds
\* exactly when the log has the completion line and no imaginary-frequency
\* line; without the completion line it fails as incomplete, with both lines
\* (in either order) it fails as an imaginary frequency.
C8_ValidateIff ==
    (result.call = "validate" /\ (XtbDir(files[D1]) \/ OrcaDir(files[D1]))) =>
        LET text == logs[D1]
            fin  == IF XtbDir(files[D1]) THEN XtbFinished ELSE OrcaFinished
            im   == IF XtbDir(files[D1]) THEN XtbImaginary ELSE OrcaImaginary
            done == \E k \in DOMAIN text : text[k] = fin
            imag == \E k \in DOMAIN text : text[k] = im
        IN  /\ (done /\ ~imag) <=> (result.out = Return(TRUE))
            /\ ~done <=> (result.out = Raise("ValueError", "incomplete output detected"))
            /\ (done /\ imag) <=>
                 (result.out = Raise("ValueError", "imaginary frequency detected"))

\* the imaginary-frequency line before the completion line: rejected
C8_Witness ==
    /\ result.call = "validate"
    /\ files[D1] = {XtbXyz, XtbOut}
    /\ logs[D1] = <<XtbImaginary, XtbFinished>>
    /\ result.out = Raise("ValueError", "imaginary frequency detected")

\* the lines holding the energy flag, and the value of the well-formed ones
XtbFlagged  == {XtbEnergy("-2"), XtbEnergy("-1"), XtbEnergy("n/a"), XtbShort}
OrcaFlagged == {OrcaEnergy("-3")}
LineValue(line) ==
    IF line = XtbEnergy("-2") THEN -2
    ELSE IF line = XtbEnergy("-1") THEN -1
    ELSE -3
WellFormed == {XtbEnergy("-2"), XtbEnergy("-1"), OrcaEnergy("-3")}

\* the last line of the directory's log that holds the energy flag, 0 if none
LastFlagged(d) ==
    LET marked == IF XtbDir(files[d]) THEN XtbFlagged ELSE OrcaFlagged
        hits   == {k \in DOMAIN logs[d] : logs[d][k] \in marked}
    IN  IF hits = {} THEN 0 ELSE CHOOSE k \in hits : \A j \in hits : j <= k

\* C9: the energy is taken from the last line holding the energy flag; if
\* that line is well formed its value times the unit's factor is returned,
\* whatever earlier lines hold, and if it is malformed the call fails.
C9_LastEnergyLineWins ==
    (/\ result.call = "energy"
     /\ result.units \in DOMAIN AU_CONVERSION_FACTORS
     /\ (XtbDir(files[D1]) \/ OrcaDir(files[D1]))
     /\ LastFlagged(D1) # 0) =>
        LET line == logs[D1][LastFlagged(D1)]
        IN  IF line \in WellFormed
            THEN result.out =
                     Return(LineValue(line) * AU_CONVERSION_FACTORS[result.units])
            ELSE ~result.out.ok

\* a malformed last energy line after a well-formed one: the call fails
C9_Witness ==
    /\ result.call = "energy"
    /\ result.units = "au"
    /\ files[D1] = {XtbXyz, XtbOut}
    /\ logs[D1] = <<XtbEnergy("-2"), XtbEnergy("n/a")>>
    /\ ~result.out.ok

\* C10: get_scf_energy fails with an unsupported-unit error for a unit that
\* is no key of the conversion table, with an energy-not-found error when no
\* line holds the energy flag, and with one and the same error when the
\* selected line is too short and when its field is not a number (the
\* ValueError float() raises); none of these cases returns a value.
C10_ThreeFailures ==
    (result.call = "energy" /\ (XtbDir(files[D1]) \/ OrcaDir(files[D1]))) =>
        LET k == LastFlagged(D1)
        IN  IF result.units \notin DOMAIN AU_CONVERSION_FACTORS
            THEN result.out = Raise("ValueError", "not a supported energy unit")
            ELSE IF k = 0
                 THEN result.out = Raise("ValueError", "couldn't get the SCF energy")
            ELSE logs[D1][k] \notin WellFormed =>
                     result.out = Raise("ValueError",
                                        "could not convert string to float")

----------------------------------------------------------------------------
(* Scanning a tree.                                                        *)

ValidXtbText  == <<XtbEnergy("-2"), XtbFinished>>
ValidOrcaText == <<OrcaEnergy("-3"), OrcaFinished>>

\* contents a directory of the scanned tree may have: files and log text
ScanKinds ==
    {[fs |-> {}, text |-> <<>>],
     [fs |-> {XtbXyz}, text |-> <<>>],
     [fs |-> {XtbXyz, XtbOut}, text |-> ValidXtbText],
     [fs |-> {OrcaXyz, OrcaTrj, OrcaOut}, text |-> ValidOrcaText],
     [fs |-> {XtbXyz, XtbOut, Ignore}, text |-> ValidXtbText],
     [fs |-> {XtbXyz, XtbOut}, text |-> <<XtbEnergy("-2")>>],
     [fs |-> {OrcaXyz, OrcaOut}, text |-> <<OrcaFinished, OrcaImaginary>>],
     [fs |-> {XtbXyz, OrcaOut}, text |-> ValidOrcaText],
     [fs |-> {XtbXyz, XtbOut, OrcaXyz, OrcaOut}, text |-> ValidXtbText],
     [fs |-> {OrcaXyz, OrcaOut, OrcaOut2}, text |-> ValidOrcaText],
     [fs |-> {OrcaXyz, OrcaOut, OrcaOut2, Ignore}, text |-> ValidOrcaText]}

\* the directories of the scanned tree that hold files
ScanDirs == {<<1>>, <<1, 1>>, <<1, 2>>, <<2, 1>>}

InitScan ==
    /\ \E k \in [ScanDirs -> ScanKinds] :
          /\ files = [d \in Dirs |-> IF d \in ScanDirs THEN k[d].fs ELSE {}]
          /\ logs = [d \in Dirs |-> IF d \in ScanDirs THEN k[d].text ELSE <<>>]
    /\ rms = NoRms
    /\ threshold = 0
    /\ ScriptAtRest
    /\ order = <<1, 2>>
    /\ result = NoCall

\* for result_d in iter_results_dirs(root_d, validate): the caller runs the
\* generator to its end
Scan(validate) ==
    /\ result = NoCall
    /\ result' = [call |-> "scan", validate |-> validate,
                  out |-> iter_results_dirs(Root, validate, files, logs)]
    /\ UNCHANGED <<files, logs, rms, threshold, pc, pending, clusters, written,
                   before, runs, finished, order, quiet>>

NextScan == \E v \in BOOLEAN : Scan(v)

SpecScan == InitScan /\ [][NextScan]_vars

InSeq(x, q) == \E k \in DOMAIN q : q[k] = x

\* C5: a directory holding '.ignore' is never yielded by iter_results_dirs,
\* with or without validation, and is never handed to validation.
C5_MarkedNeverYielded ==
    result.call = "scan" =>
        \A d \in Dirs :
            Ignore \in files[d] =>
                /\ ~InSeq(d, result.out.yielded)
                /\ ~InSeq(d, result.out.validated)

\* a marked directory that would pass validation is left out while an
\* unmarked one is yielded
C5_Witness ==
    /\ result.call = "scan"
    /\ result.validate
    /\ files[<<1, 1>>] = {XtbXyz, XtbOut, Ignore}
    /\ logs[<<1, 1>>] = ValidXtbText
    /\ result.out.yielded = <<(<<1, 2>>)>>

\* directories that pass detection and validation ('.ignore' left aside)
Passes(d) ==
    \/ /\ XtbDir(files[d] \ {Ignore})
       /\ InSeq(XtbFinished, logs[d])
       /\ ~InSeq(XtbImaginary, logs[d])
    \/ /\ OrcaDir(files[d] \ {Ignore})
       /\ InSeq(OrcaFinished, logs[d])
       /\ ~InSeq(OrcaImaginary, logs[d])

\* C6: a validating scan never ends with an error, and yields every
\* unmarked directory that passes detection and validation, whatever
\* directory-level errors the other directories of the tree raise.
C6_ScanRecovers ==
    (result.call = "scan" /\ result.validate) =>
        /\ result.out.raised = NoError
        /\ \A d \in Dirs :
              (Passes(d) /\ Ignore \notin files[d]) => InSeq(d, result.out.yielded)

----------------------------------------------------------------------------
(* Deduplication runs over a tree of two isomers.                          *)

XtbText(w) == <<XtbEnergy(w), XtbFinished>>

\* contents of a result directory of isomer 1: a valid xtb result with
\* energy -2 or -1, or an unfinished calculation
ConfKinds ==
    {[fs |-> {XtbXyz, XtbOut}, text |-> XtbText("-2")],
     [fs |-> {XtbXyz, XtbOut}, text |-> XtbText("-1")],
     [fs |-> {XtbXyz, XtbOut}, text |-> <<XtbEnergy("-2")>>]}

\* contents of the result directory of isomer 2: a valid orca result, or a
\* finished xtb calculation whose log has no energy line
OtherKinds ==
    {[fs |-> {OrcaXyz, OrcaTrj, OrcaOut}, text |-> ValidOrcaText],
     [fs |-> {XtbXyz, XtbOut}, text |-> <<XtbFinished>>]}

Devs == {1, 2}
Thresholds == {1, 2}

Confs1 == {<<1, k>> : k \in 1..NumConfs}

\* pairs of distinct conformer directories of isomer 1
ConfPairs == {<<i, j>> \in (1..NumConfs) \X (1..NumConfs) : i < j}

\* the deviations as a matrix: symmetric, zero on the diagonal (directories
\* of different isomers are never compared)
RmsOf(g) ==
    [a \in ResultDirs |-> [b \in ResultDirs |->
        IF a = b \/ a \notin Confs1 \/ b \notin Confs1 THEN 0
        ELSE IF a[2] < b[2] THEN g[<<a[2], b[2]>>] ELSE g[<<b[2], a[2]>>]]]

InitDedup ==
    /\ \E k \in [Confs1 -> ConfKinds], o \in OtherKinds :
          /\ files = [d \in Dirs |-> IF d \in Confs1 THEN k[d].fs
                                     ELSE IF d = <<2, 1>> THEN o.fs ELSE {}]
          /\ logs = [d \in Dirs |-> IF d \in Confs1 THEN k[d].text
                                    ELSE IF d = <<2, 1>> THEN o.text ELSE <<>>]
    /\ \E g \in [ConfPairs -> Devs] : rms = RmsOf(g)
    /\ threshold \in Thresholds
    /\ ScriptAtRest
    /\ order \in IterdirOrders
    /\ result = NoCall

\* main, line 34: the isomers are the subdirectories of the root
StartRun ==
    /\ pc \in {"idle", "crashed"}
    /\ runs < MaxRuns
    /\ pc' = "loop"
    /\ pending' = {i \in Isomers : IsomerDir(i) \in Children(Root)}
    /\ clusters' = [i \in Isomers |-> <<>>]
    /\ written' = {}
    /\ before' = {d \in Dirs : Ignore \in files[d]}
    /\ runs' = runs + 1
    /\ UNCHANGED <<files, logs, rms, threshold, finished, order, quiet, result>>

\* main, lines 35-63: one pass of the loop, for the first isomer of the
\* listing not yet taken; mol, clusterList and flagged
\* are bound by \E over a singleton so that each is computed once
ProcessIsomer(isomer) ==
    /\ pc = "loop"
    /\ isomer \in pending
    /\ \A k \in DOMAIN order :
          (order[k] \in pending /\ order[k] # isomer) =>
              \E j \in DOMAIN order : j < k /\ order[j] = isomer
    /\ \E mol \in {_load_confs_from_dir(IsomerDir(isomer), files, logs)} :
          IF ~mol.ok
          THEN /\ pc' = "crashed"
               /\ pending' = {}
               /\ quiet' = (quiet \/ written = {})
               /\ UNCHANGED <<files, clusters, written>>
          ELSE IF mol.val = <<>>
               THEN /\ pending' = pending \ {isomer}
                    /\ UNCHANGED <<files, clusters, written, pc, quiet>>
          ELSE \E clusterList \in
                      {ClusterData(GetConformerRMSMatrix(mol.val, rms),
                                   Len(mol.val), threshold)} :
               \E flagged \in {FlaggedDirs(clusterList, mol.val)} :
                   /\ files' = [d \in Dirs |->
                                  IF d \in flagged THEN files[d] \cup {Ignore}
                                  ELSE files[d]]
                   /\ clusters' = [clusters EXCEPT
                                     ![isomer] = ClusterDirs(clusterList, mol.val)]
                   /\ written' = written \cup flagged
                   /\ pending' = pending \ {isomer}
                   /\ pc' = pc
                   /\ quiet' = quiet
    /\ UNCHANGED <<logs, rms, threshold, before, runs, finished, order, result>>

\* main returns after the last isomer
EndRun ==
    /\ pc = "loop"
    /\ pending = {}
    /\ pc' = "idle"
    /\ finished' = finished + 1
    /\ quiet' = (quiet \/ written = {})
    /\ UNCHANGED <<files, logs, rms, threshold, pending, clusters, written, before,
                   runs, order, result>>

NextDedup == StartRun \/ (\E i \in Isomers : ProcessIsomer(i)) \/ EndRun

SpecDedup == InitDedup /\ [][NextDedup]_vars

----------------------------------------------------------------------------
(* Properties of deduplication.                                            *)

\* the result directories below an isomer's directory
DirsOf(isomer) == {d \in ResultDirs : IsPrefix(IsomerDir(isomer), d)}

\* the energy written in the log of a directory that passes validation
HasEnergy(d) == logs[d] \in {XtbText("-2"), XtbText("-1"), ValidOrcaText}
TrueEnergy(d) ==
    IF logs[d] = XtbText("-2") THEN -2
    ELSE IF logs[d] = XtbText("-1") THEN -1
    ELSE -3

\* the conformers a run that started with the directories in marked flagged
\* takes for an isomer
ConformersOf(isomer, marked) ==
    {d \in DirsOf(isomer) : Passes(d) /\ d \notin marked}

\* the directories in a cluster
Members(cluster) == {cluster[k] : k \in DOMAIN cluster}

\* the clusters of an isomer split its conformers: each in exactly one
\* cluster, once
IsPartition(isomer) ==
    /\ \A c \in DOMAIN clusters[isomer] :
          Members(clusters[isomer][c]) \subseteq ConformersOf(isomer, before)
    /\ \A d \in ConformersOf(isomer, before) :
          Cardinality({<<c, k>> \in (DOMAIN clusters[isomer]) \X (1..NumConfs) :
                          /\ k \in DOMAIN clusters[isomer][c]
                          /\ clusters[isomer][c][k] = d}) = 1

\* C2 as claimed: the clusters of an isomer split its conformers, and any
\* two distinct members of a cluster deviate by less than the threshold.
C2_PairwiseBelow ==
    \A i \in Isomers :
        clusters[i] # <<>> =>
            /\ IsPartition(i)
            /\ \A c \in DOMAIN clusters[i] :
                  \A p, q \in DOMAIN clusters[i][c] :
                      p # q => rms[clusters[i][c][p]][clusters[i][c][q]] < threshold

\* C2 as amended: the clusters of an isomer split its conformers, and every
\* member of a cluster deviates from the cluster's first member (its
\* centroid) by at most the threshold.
C2_WithinOfCentroid ==
    \A i \in Isomers :
        clusters[i] # <<>> =>
            /\ IsPartition(i)
            /\ \A c \in DOMAIN clusters[i] :
                  \A k \in DOMAIN clusters[i][c] :
                      rms[clusters[i][c][1]][clusters[i][c][k]] <= threshold

\* a cluster of three whose two other members are beyond the threshold of
\* each other
C2_Witness ==
    \E c \in DOMAIN clusters[1] :
        /\ Len(clusters[1][c]) = 3
        /\ rms[clusters[1][c][2]][clusters[1][c][3]] > threshold

\* C3: once an isomer is processed, every cluster has exactly one member
\* without a marker of this run, no member has a lower energy than it, and
\* every other member's directory holds '.ignore'.
C3_KeepsMinimum ==
    \A i \in Isomers :
        \A c \in DOMAIN clusters[i] :
            LET members == Members(clusters[i][c])
                kept    == members \ written
            IN  /\ Cardinality(kept) = 1
                /\ \A m \in kept : \A n \in members : TrueEnergy(m) <= TrueEnergy(n)
                /\ \A n \in members \ kept : Ignore \in files[n]

\* a cluster whose kept member is not its centroid
C3_Witness ==
    \E c \in DOMAIN clusters[1] :
        /\ Len(clusters[1][c]) >= 2
        /\ clusters[1][c][1] \in written
        /\ clusters[1][c][2] \notin written

\* the conformers of an isomer in the tree as first given, and the one with
\* the lowest energy
AllConformers(isomer) == {d \in DirsOf(isomer) : Passes(d) /\ HasEnergy(d)}
IsGlobalMin(isomer, g) ==
    /\ g \in AllConformers(isomer)
    /\ \A d \in AllConformers(isomer) \ {g} : TrueEnergy(g) < TrueEnergy(d)

\* C4: the single lowest-energy conformer of an isomer is never flagged, in
\* no run; every other member of its cluster is flagged; and the lowest
\* energy among the isomer's unflagged conformers stays what it was.
C4_GlobalMinimumKept ==
    \A i \in Isomers : \A g \in DirsOf(i) :
        IsGlobalMin(i, g) =>
            /\ Ignore \notin files[g]
            /\ \A c \in DOMAIN clusters[i] :
                  g \in Members(clusters[i][c]) =>
                      \A n \in Members(clusters[i][c]) \ {g} : Ignore \in files[n]
            /\ \A d \in AllConformers(i) :
                  Ignore \notin files[d] => TrueEnergy(g) <= TrueEnergy(d)

\* in a second run the lowest-energy conformer, still unflagged, shares a
\* cluster with another conformer and is not its centroid
C4_Witness ==
    \E g \in DirsOf(1) : \E c \in DOMAIN clusters[1] :
        /\ runs = 2
        /\ IsGlobalMin(1, g)
        /\ Len(clusters[1][c]) >= 2
        /\ g \in Members(clusters[1][c])
        /\ clusters[1][c][1] # g
        /\ Ignore \notin files[g]

\* no two conformers of one isomer, among those not flagged in marked, are
\* within the threshold of each other
Separated(marked) ==
    \A i \in Isomers : \A a, b \in ConformersOf(i, marked) :
        a # b => rms[a][b] > threshold

----------------------------------------------------------------------------
(* Failures inside a deduplication run.                                    *)

\* an isomer whose conformers, as the run found them, all load: each passes
\* validation and has an energy line
Loadable(isomer) ==
    /\ ConformersOf(isomer, before) # {}
    /\ \A d \in ConformersOf(isomer, before) : HasEnergy(d)

\* C11: a failure while loading one isomer abandons that isomer alone: the
\* run does not end at the failing isomer, and once the run is over every
\* isomer whose conformers load has been clustered in it.
C11_OtherIsomersProceed ==
    (runs >= 1 /\ pc \in {"idle", "crashed"}) =>
        /\ pc = "idle"
        /\ \A i \in Isomers : Loadable(i) => clusters[i] # <<>>

----------------------------------------------------------------------------
(* Library calls and deduplication runs on one tree, in any sequence.      *)

InitTree ==
    /\ \E k \in [Confs1 -> ConfKinds], o \in OtherKinds :
          /\ files = [d \in Dirs |-> IF d \in Confs1 THEN k[d].fs
                                     ELSE IF d = <<2, 1>> THEN o.fs ELSE {}]
          /\ logs = [d \in Dirs |-> IF d \in Confs1 THEN k[d].text
                                    ELSE IF d = <<2, 1>> THEN o.text ELSE <<>>]
    /\ rms = RmsOf([p \in ConfPairs |-> 1])
    /\ threshold = 1
    /\ ScriptAtRest
    /\ order \in IterdirOrders
    /\ result = NoCall

DetectIn(d) ==
    /\ result' = [call |-> "detect", dir |-> d, out |-> detect_output_type(files[d])]
    /\ UNCHANGED <<files, logs, rms, threshold, pc, pending, clusters, written,
                   before, runs, finished, order, quiet>>

ValidateIn(d) ==
    /\ result' = [call |-> "validate", dir |-> d,
                  out |-> validate_results_dir(files[d], logs[d])]
    /\ UNCHANGED <<files, logs, rms, threshold, pc, pending, clusters, written,
                   before, runs, finished, order, quiet>>

GetScfEnergyIn(d, units) ==
    /\ result' = [call |-> "energy", dir |-> d, units |-> units,
                  out |-> get_scf_energy(files[d], logs[d], units)]
    /\ UNCHANGED <<files, logs, rms, threshold, pc, pending, clusters, written,
                   before, runs, finished, order, quiet>>

ScanFrom(root_d, validate) ==
    /\ result' = [call |-> "scan", dir |-> root_d, validate |-> validate,
                  out |-> iter_results_dirs(root_d, validate, files, logs)]
    /\ UNCHANGED <<files, logs, rms, threshold, pc, pending, clusters, written,
                   before, runs, finished, order, quiet>>

\* the directories the calls of SpecTree are made on
CallDirs == {<<1, 1>>, <<2, 1>>}

NextTree ==
    \/ StartRun
    \/ \E i \in Isomers : ProcessIsomer(i)
    \/ EndRun
    \/ \E d \in CallDirs : DetectIn(d)
    \/ \E d \in CallDirs : ValidateIn(d)
    \/ \E d \in CallDirs : GetScfEnergyIn(d, "au")
    \/ \E v \in BOOLEAN : ScanFrom(Root, v)

SpecTree == InitTree /\ [][NextTree]_vars

\* C12: whatever the operation, the log texts stay as they are, no directory
\* disappears, and the files of a directory stay as they are but for an
\* '.ignore' file that a deduplication run in progress adds to an unflagged
\* result directory that passes validation; a step that makes a library call
\* (scan, detection, validation, energy extraction) changes no file at all.
C12_OnlyMarkersWritten ==
    [][/\ logs' = logs
       /\ DOMAIN files' = DOMAIN files
       /\ \A d \in Dirs :
             \/ files'[d] = files[d]
             \/ /\ files'[d] = files[d] \cup {Ignore}
                /\ pc = "loop"
                /\ d \in ResultDirs
                /\ Passes(d)
       /\ (result' # result => files' = files)]_vars

\* a validation call made on a tree that a deduplication run has written
\* markers to
C12_Witness ==
    /\ written # {}
    /\ result.call = "validate"
    /\ \E d \in Dirs : Ignore \in files[d]

----------------------------------------------------------------------------
(* Units of the extracted energy.                                          *)

\* the factor of each unit, in thousandths, as the claims state it
FactorOf(units) ==
    IF units = "au" THEN 1000
    ELSE IF units \in {"kjmol", "kJ/mol"} THEN 2625500
    ELSE 627510

\* the directory of the call is detected, and the last line of its log that
\* holds the energy flag is well formed
EnergyLineWellFormed ==
    /\ XtbDir(files[D1]) \/ OrcaDir(files[D1])
    /\ LastFlagged(D1) # 0
    /\ logs[D1][LastFlagged(D1)] \in WellFormed

\* C13 as claimed: the unit keys are 'au', 'kJ/mol' and 'kcal/mol'; with one
\* of them and a well-formed energy line holding E the call returns E times
\* 1.0, 2625.5 or 627.51, and with any other key it fails.
C13_SlashedUnitKeys ==
    (result.call = "energy" /\ EnergyLineWellFormed) =>
        IF result.units \in {"au", "kJ/mol", "kcal/mol"}
        THEN result.out = Return(LineValue(logs[D1][LastFlagged(D1)])
                                     * FactorOf(result.units))
        ELSE ~result.out.ok

\* C13 as amended: the unit keys are 'au', 'kjmol' and 'kcalmol'; with one of
\* them and a well-formed energy line holding E the call returns E times
\* 1.0, 2625.5 or 627.51, so that the 'kjmol' result is 2625.5 times the
\* 'au' result for the same directory; with any other key the call fails,
\* as an unsupported unit when the directory's format is detected.
C13_UnitKeys ==
    result.call = "energy" =>
        /\ result.units \notin {"au", "kjmol", "kcalmol"} =>
              /\ ~result.out.ok
              /\ (XtbDir(files[D1]) \/ OrcaDir(files[D1])) =>
                    result.out = Raise("ValueError", "not a supported energy unit")
        /\ (result.units \in {"au", "kjmol", "kcalmol"} /\ EnergyLineWellFormed) =>
              /\ result.out = Return(LineValue(logs[D1][LastFlagged(D1)])
                                        * FactorOf(result.units))
              /\ result.units = "kjmol" =>
                    result.out.val * 10 =
                        26255 * get_scf_energy(files[D1], logs[D1], "au").val

\* the energy -2 Hartree asked in kjmol: -5251 kJ/mol
C13_Witness ==
    /\ result.call = "energy"
    /\ result.units = "kjmol"
    /\ logs[D1] = <<XtbEnergy("-2"), XtbFinished>>
    /\ result.out = Return(-5251000)

----------------------------------------------------------------------------
(* Names of result directories.                                            *)

\* None, a value no token equals (a token is a sequence of single characters)
None == <<"None">>

\* str.split('_'): the pieces between the underscores, empty pieces included
RECURSIVE Split(_)
Split(name) ==
    IF \A i \in DOMAIN name : name[i] # "_" THEN <<name>>
    ELSE LET i == CHOOSE j \in DOMAIN name :
                      name[j] = "_" /\ \A k \in 1..(j - 1) : name[k] # "_"
         IN  <<SubSeq(name, 1, i - 1)>> \o Split(SubSeq(name, i + 1, Len(name)))

\* parse_results_dir_name taking the first three of three or more tokens
parse_first_three(name) ==
    The({IF Len(parts) >= 3 THEN Return(<<parts[1], parts[2], parts[3]>>)
         ELSE IF Len(parts) = 2 THEN Return(<<parts[1], parts[2], None>>)
         ELSE Raise("ValueError", "expected the result directory name formatted as") :
         parts \in {Split(name)}})

\* parse_results_dir_name(result_d), name being result_d.name
parse_results_dir_name(name) ==
    The({IF Len(parts) = 3 THEN Return(<<parts[1], parts[2], parts[3]>>)
         ELSE IF Len(parts) = 2 THEN Return(<<parts[1], parts[2], None>>)
         ELSE Raise("ValueError", "expected the result directory name formatted as") :
         parts \in {Split(name)}})

NameChars == {"a", "7", "_"}
Names == UNION {[1..n -> NameChars] : n \in 0..MaxNameLen}

InitParse ==
    /\ files = NoFiles
    /\ logs = NoLogs
    /\ rms = NoRms
    /\ threshold = 0
    /\ ScriptAtRest
    /\ order = <<1, 2>>
    /\ result = NoCall

ParseResultsDirName(name) ==
    /\ result = NoCall
    /\ result' = [call |-> "parse", name |-> name, out |-> parse_results_dir_name(name)]
    /\ UNCHANGED <<files, logs, rms, threshold, pc, pending, clusters, written,
                   before, runs, finished, order, quiet>>

NextParse == \E name \in Names : ParseResultsDirName(name)

SpecParse == InitParse /\ [][NextParse]_vars

\* the number of underscores in a name, and a text without any
Underscores(name) == Cardinality({i \in DOMAIN name : name[i] = "_"})
NoUnderscore(t) == \A i \in DOMAIN t : t[i] # "_"

\* C14: a name with one underscore (two tokens) gives the isomer before it,
\* the conformer after it and no pose; a name with two underscores (three
\* tokens) gives isomer, conformer and pose in the order they stand in the
\* name; any other name fails with the name-format error.
C14_TwoOrThreeTokens ==
    result.call = "parse" =>
        LET name == result.name
            out  == result.out
        IN  IF Underscores(name) = 1
            THEN /\ out.ok
                 /\ Len(out.val) = 3
                 /\ NoUnderscore(out.val[1]) /\ NoUnderscore(out.val[2])
                 /\ out.val[1] \o <<"_">> \o out.val[2] = name
                 /\ out.val[3] = None
            ELSE IF Underscores(name) = 2
            THEN /\ out.ok
                 /\ Len(out.val) = 3
                 /\ \A k \in 1..3 : NoUnderscore(out.val[k])
                 /\ out.val[1] \o <<"_">> \o out.val[2] \o <<"_">> \o out.val[3] = name
            ELSE out = Raise("ValueError",
                             "expected the result directory name formatted as")

\* a name of three tokens, the middle one empty
C14_Witness ==
    /\ result.call = "parse"
    /\ result.name = <<"7", "_", "_", "a">>
    /\ result.out = Return(<< <<"7">>, <<>>, <<"a">> >>)

----------------------------------------------------------------------------
(* The directories a scan yields.                                          *)

\* a directory that directly holds a file with suffix .xyz and one with
\* suffix .out, and no '.ignore'
Qualifies(d) ==
    /\ files[d] \cap {XtbXyz, OrcaXyz, OrcaTrj} # {}
    /\ files[d] \cap {XtbOut, OrcaOut, OrcaOut2} # {}
    /\ Ignore \notin files[d]

\* C15: without validation the scan yields exactly the directories that
\* qualify by their suffixes; with validation exactly those of them that
\* pass detection and validation; no directory is yielded twice.
C15_YieldsExactly ==
    result.call = "scan" =>
        LET yielded == result.out.yielded
        IN  /\ {yielded[k] : k \in DOMAIN yielded} =
                  {d \in Dirs : Qualifies(d) /\ (result.validate => Passes(d))}
            /\ \A j, k \in DOMAIN yielded : yielded[j] = yielded[k] => j = k

----------------------------------------------------------------------------
(* Targets of the marker writes.                                           *)

\* the directories in the clusters of an isomer, and how many places they take
MembersOfAll(isomer) ==
    UNION {Members(clusters[isomer][c]) : c \in DOMAIN clusters[isomer]}
PlacesOfAll(isomer) ==
    {<<c, k>> \in (DOMAIN clusters[isomer]) \X (1..(NumConfs + 1)) :
        k \in DOMAIN clusters[isomer][c]}

----------------------------------------------------------------------------
(* Members of equal energy.                                                *)

\* the places of a cluster whose directory the run has not written to
KeptPlaces(cluster) == {k \in DOMAIN cluster : cluster[k] \notin written}

\* C17: in every cluster one place is kept; every member before it in the
\* cluster's order has a higher energy and no member after it a lower one
\* (it is the first member of lowest energy, whatever members tie with it);
\* every other member, those of the same energy included, is flagged.
C17_FirstMinimumKept ==
    \A i \in Isomers : \A c \in DOMAIN clusters[i] :
        LET cluster == clusters[i][c]
        IN  /\ Cardinality(KeptPlaces(cluster)) = 1
            /\ \A k \in KeptPlaces(cluster) :
                  /\ \A j \in 1..(k - 1) :
                        TrueEnergy(cluster[j]) > TrueEnergy(cluster[k])
                  /\ \A j \in (k + 1)..Len(cluster) :
                        /\ TrueEnergy(cluster[j]) >= TrueEnergy(cluster[k])
                        /\ Ignore \in files[cluster[j]]
                  /\ \A j \in 1..(k - 1) : Ignore \in files[cluster[j]]

\* a cluster of three whose second and third members share the lowest
\* energy: the second is kept, the third flagged
C17_Witness ==
    \E c \in DOMAIN clusters[1] :
        LET cluster == clusters[1][c]
        IN  /\ Len(cluster) = 3
            /\ TrueEnergy(cluster[2]) = TrueEnergy(cluster[3])
            /\ TrueEnergy(cluster[2]) < TrueEnergy(cluster[1])
            /\ KeptPlaces(cluster) = {2}
            /\ Ignore \in files[cluster[3]]

----------------------------------------------------------------------------
(* Repeated deduplication.                                                 *)

\* the result directories that pass validation and hold no marker
Unmarked == {d \in ResultDirs : Passes(d) /\ Ignore \notin files[d]}

\* C18: a step that writes a marker strictly shrinks the set of unflagged
\* validated directories, and no step enlarges it; once a run has ended
\* without writing, no later run writes; from the run whose number is the
\* number of conformer directories on, no run writes; and an isomer with a
\* validated conformer always keeps an unflagged one.
C18_Converges ==
    /\ [][/\ Unmarked' \subseteq Unmarked
          /\ written' \ written # {} => Unmarked' # Unmarked]_vars
    /\ [](quiet => written = {})
    /\ [](runs >= NumConfs => written = {})
    /\ [](\A i \in Isomers :
            (\E d \in DirsOf(i) : Passes(d)) => DirsOf(i) \cap Unmarked # {})

\* a run that follows a run without writes, itself after runs that wrote
\* markers, has ended without writing
C18_Witness ==
    /\ quiet
    /\ runs >= 3
    /\ pc = "idle"
    /\ before # {}
    /\ written = {}
    /\ Unmarked # {}

====
